---- MODULE Spec2Model ----
(***************************************************************************)
(* A model of regexr (src/regexr/string.py): the Segment classes, their    *)
(* constructors, the compact renderer (__str__ / _str_raw) and the pretty  *)
(* renderer (pretty / _pretty_raw), and the Regexr entrance class.         *)
(*                                                                         *)
(* Text is a sequence of one-character strings, so that escaping,          *)
(* splitting into lines and joining are computed character by character.   *)
(***************************************************************************)
EXTENDS Integers, Sequences, FiniteSets, TLC

(***************************************************************************)
(* Python values                                                           *)
(***************************************************************************)
None == [t |-> "none"]

PyStr(s) == [t |-> "str", s |-> s]

PyBool(b) == [t |-> "bool", b |-> b]

PyInt(i) == [t |-> "int", i |-> i]

PySeq(items) == [t |-> "seq", items |-> items]

False == PyBool(FALSE)

True == PyBool(TRUE)

IsSegment(x) == "cls" \in DOMAIN x

IsStr(x) == ~IsSegment(x) /\ x.t = "str"

IsInt(x) == ~IsSegment(x) /\ x.t = "int"

\* Python truth value: None, False, "" and 0 are false; a Segment defines
\* neither __bool__ nor __len__ and is true.
Truthy(x) ==
    IF IsSegment(x) THEN TRUE
    ELSE CASE x.t = "none" -> FALSE
           [] x.t = "bool" -> x.b
           [] x.t = "str" -> Len(x.s) > 0
           [] x.t = "int" -> x.i # 0
           [] OTHER -> Len(x.items) > 0

\* The outcome of a call: the exception it raised ("" when it returned) and
\* the value it returned.
Ok(v) == [exc |-> "", val |-> v]

Raise(e) == [exc |-> e, val |-> None]

(***************************************************************************)
(* Text                                                                    *)
(***************************************************************************)
Letters ==
    {"a", "b", "c", "d", "e", "f", "g", "h", "i", "j", "k", "l", "m",
     "n", "o", "p", "q", "r", "s", "t", "u", "v", "w", "x", "y", "z",
     "A", "B", "C", "D", "E", "F", "G", "H", "I", "J", "K", "L", "M",
     "N", "O", "P", "Q", "R", "S", "T", "U", "V", "W", "X", "Y", "Z"}

Digits == {"0", "1", "2", "3", "4", "5", "6", "7", "8", "9"}

\* The characters re.escape puts a backslash before.
SpecialChars ==
    {"(", ")", "[", "]", "{", "}", "?", "*", "+", "-", "|", "^", "$",
     "\\", ".", "&", "~", "#", " ", "\t", "\n", "\r", "\f"}

\* The characters str.strip / lstrip remove, and the line boundaries of
\* str.splitlines.
Whitespace == {" ", "\t", "\n", "\r", "\f"}

LineBreaks == {"\n", "\r", "\f"}

Contains(s, c) == \E i \in 1..Len(s) : s[i] = c

RECURSIVE Join(_, _)
\* sep.join(parts)
Join(sep, parts) ==
    IF parts = <<>> THEN <<>>
    ELSE IF Len(parts) = 1 THEN parts[1]
    ELSE parts[1] \o sep \o Join(sep, Tail(parts))

RECURSIVE Escape(_)
\* re.escape(s)
Escape(s) ==
    IF s = <<>> THEN <<>>
    ELSE (IF Head(s) \in SpecialChars THEN <<"\\", Head(s)>> ELSE <<Head(s)>>)
         \o Escape(Tail(s))

\* str.isidentifier()
IsIdentifier(s) ==
    /\ Len(s) > 0
    /\ s[1] \in Letters \cup {"_"}
    /\ \A i \in 2..Len(s) : s[i] \in Letters \cup Digits \cup {"_"}

RECURSIVE Times(_, _)
\* indent * level
Times(s, k) == IF k <= 0 THEN <<>> ELSE s \o Times(s, k - 1)

DigitChar(d) ==
    CASE d = 0 -> "0" [] d = 1 -> "1" [] d = 2 -> "2" [] d = 3 -> "3"
      [] d = 4 -> "4" [] d = 5 -> "5" [] d = 6 -> "6" [] d = 7 -> "7"
      [] d = 8 -> "8" [] OTHER -> "9"

RECURSIVE NatStr(_)
NatStr(i) == IF i < 10 THEN <<DigitChar(i)>> ELSE NatStr(i \div 10) \o <<DigitChar(i % 10)>>

\* str(i) of an integer
IntStr(i) == IF i < 0 THEN <<"-">> \o NatStr(0 - i) ELSE NatStr(i)

\* The index of the first line boundary of s, 0 when it has none.
FirstBreak(s) ==
    IF \E i \in 1..Len(s) : s[i] \in LineBreaks
    THEN CHOOSE i \in 1..Len(s) :
            /\ s[i] \in LineBreaks
            /\ \A j \in 1..(i - 1) : s[j] \notin LineBreaks
    ELSE 0

RECURSIVE SplitLines(_)
\* s.splitlines(): no empty last line, "\r\n" is one boundary
SplitLines(s) ==
    IF s = <<>> THEN <<>>
    ELSE LET i == FirstBreak(s)
             w == IF i > 0 /\ i < Len(s) /\ s[i] = "\r" /\ s[i + 1] = "\n" THEN 2 ELSE 1
         IN  IF i = 0 THEN <<s>>
             ELSE <<SubSeq(s, 1, i - 1)>> \o SplitLines(SubSeq(s, i + w, Len(s)))

\* The index of the first "\n" of s, 0 when it has none.
FirstNewline(s) ==
    IF Contains(s, "\n")
    THEN CHOOSE i \in 1..Len(s) : s[i] = "\n" /\ \A j \in 1..(i - 1) : s[j] # "\n"
    ELSE 0

RECURSIVE SplitNewline(_)
\* s.split("\n"): "" gives [""]
SplitNewline(s) ==
    LET i == FirstNewline(s)
    IN  IF i = 0 THEN <<s>>
        ELSE <<SubSeq(s, 1, i - 1)>> \o SplitNewline(SubSeq(s, i + 1, Len(s)))

\* [f(line) for line in lines] with f = prefix + line
Prefixed(prefix, lines) == [i \in 1..Len(lines) |-> prefix \o lines[i]]

(***************************************************************************)
(* The flag codec                                                          *)
(***************************************************************************)
RE_A == 256

RE_I == 2

RE_L == 4

RE_M == 8

RE_S == 16

RE_U == 32

RE_X == 64

\* flags & bit
HasBit(flags, bit) == (flags \div bit) % 2 = 1

FlagChars == {"a", "i", "L", "m", "s", "u", "x"}

RECURSIVE FlagsToStrUnchecked(_)
\* _flags_to_str without the test of the characters of a code string
FlagsToStrUnchecked(flags) ==
    IF flags = None THEN Ok(<<>>)
    ELSE IF flags.t = "seq" THEN
        IF flags.items = <<>> THEN Ok(<<>>)
        ELSE Ok(FlagsToStrUnchecked(Head(flags.items)).val
                \o FlagsToStrUnchecked(PySeq(Tail(flags.items))).val)
    ELSE IF flags.t = "int" THEN
        Ok((IF HasBit(flags.i, RE_A) THEN <<"a">> ELSE <<>>)
           \o (IF HasBit(flags.i, RE_I) THEN <<"i">> ELSE <<>>)
           \o (IF HasBit(flags.i, RE_L) THEN <<"L">> ELSE <<>>)
           \o (IF HasBit(flags.i, RE_M) THEN <<"m">> ELSE <<>>)
           \o (IF HasBit(flags.i, RE_S) THEN <<"s">> ELSE <<>>)
           \o (IF HasBit(flags.i, RE_U) THEN <<"u">> ELSE <<>>)
           \o (IF HasBit(flags.i, RE_X) THEN <<"x">> ELSE <<>>))
    ELSE Ok(flags.s)

RECURSIVE _flags_to_str(_)
\* The outcome of _flags_to_str(flags): the code string, or ValueError.
_flags_to_str(flags) ==
    IF flags = None THEN Ok(<<>>)
    ELSE IF flags.t = "seq" THEN
        IF flags.items = <<>> THEN Ok(<<>>)
        ELSE LET first == _flags_to_str(Head(flags.items))
                 rest == _flags_to_str(PySeq(Tail(flags.items)))
             IN  IF first.exc # "" THEN first
                 ELSE IF rest.exc # "" THEN rest
                 ELSE Ok(first.val \o rest.val)
    ELSE IF flags.t = "int" THEN
        Ok((IF HasBit(flags.i, RE_A) THEN <<"a">> ELSE <<>>)
           \o (IF HasBit(flags.i, RE_I) THEN <<"i">> ELSE <<>>)
           \o (IF HasBit(flags.i, RE_L) THEN <<"L">> ELSE <<>>)
           \o (IF HasBit(flags.i, RE_M) THEN <<"m">> ELSE <<>>)
           \o (IF HasBit(flags.i, RE_S) THEN <<"s">> ELSE <<>>)
           \o (IF HasBit(flags.i, RE_U) THEN <<"u">> ELSE <<>>)
           \o (IF HasBit(flags.i, RE_X) THEN <<"x">> ELSE <<>>))
    ELSE IF \E i \in 1..Len(flags.s) : flags.s[i] \notin FlagChars
         THEN Raise("ValueError")
         ELSE Ok(flags.s)

(***************************************************************************)
(* The classes                                                             *)
(***************************************************************************)
CharClassClasses == {"OneOfChars", "NoneOfChars"}

LookClasses == {"LookAhead", "LookBehind", "LookAheadNot", "LookBehindNot"}

\* The quantifiers whose constructor is Quantifier.__init__
SimpleQuantifierClasses == {"ZeroOrMore", "OneOrMore", "Maybe"}

QuantifierClasses == SimpleQuantifierClasses \cup {"Repeat", "RepeatExact"}

\* The classes whose constructor is Segment.__init__
PlainClasses == CharClassClasses \cup LookClasses \cup {"Or", "Concat"}

IsQuantifier(x) == IsSegment(x) /\ x.cls \in QuantifierClasses

IsRaw(x) == IsSegment(x) /\ x.cls = "Raw"

IsCharClass(x) == IsSegment(x) /\ x.cls \in CharClassClasses

IsCaptured(x) == IsSegment(x) /\ x.cls = "Captured"

IsFlag(x) == IsSegment(x) /\ x.cls = "Flag"

\* NONCAPTURING_WRAPPING turned off in Or, as it is in Concat
NonCaptureWrappingOnly(cls) == cls = "NonCapture"

\* NONCAPTURING_WRAPPING left on in Concat, as Segment sets it
NonCaptureWrappingAlsoConcat(cls) == cls \in {"Or", "NonCapture", "Concat"}

\* The class attribute NONCAPTURING_WRAPPING
NONCAPTURING_WRAPPING(cls) == cls \in {"Or", "NonCapture"}

\* The class attribute PREFIX of the lookarounds
PREFIX(cls) ==
    CASE cls = "LookAhead" -> <<"?", "=">>
      [] cls = "LookBehind" -> <<"?", "<", "=">>
      [] cls = "LookAheadNot" -> <<"?", "!">>
      [] OTHER -> <<"?", "<", "!">>

\* An object with the slots of every class; a slot its class does not set is None.
MkNode(cls, args, capture, flags) ==
    [cls |-> cls, args |-> args, capture |-> capture, flags |-> flags,
     lazy |-> None, m |-> None, n |-> None, entire |-> None,
     id_or_name |-> None, yes |-> None, no |-> None]

(***************************************************************************)
(* The constructors: each gives the outcome of the call, the object built  *)
(* or the exception raised.                                                *)
(***************************************************************************)
\* Segment.__init__ without the test for a flag both turned on and off
SegmentInitNoConflict(cls, args, capture, flags, deflags) ==
    IF IsStr(capture) /\ ~IsIdentifier(capture.s) THEN Raise("ValueError")
    ELSE LET f == _flags_to_str(flags)
             d == _flags_to_str(deflags)
         IN  IF f.exc # "" THEN Raise(f.exc)
             ELSE IF d.exc # "" THEN Raise(d.exc)
             ELSE Ok(MkNode(cls, args, capture,
                            f.val \o (IF d.val # <<>> THEN <<"-">> \o d.val ELSE <<>>)))

\* Segment.__init__
SegmentInit(cls, args, capture, flags, deflags) ==
    IF IsStr(capture) /\ ~IsIdentifier(capture.s) THEN Raise("ValueError")
    ELSE LET f == _flags_to_str(flags)
             d == _flags_to_str(deflags)
         IN  IF f.exc # "" THEN Raise(f.exc)
             ELSE IF d.exc # "" THEN Raise(d.exc)
             ELSE IF \E i \in 1..Len(f.val) : Contains(d.val, f.val[i])
                  THEN Raise("ValueError")
             ELSE Ok(MkNode(cls, args, capture,
                            f.val \o (IF d.val # <<>> THEN <<"-">> \o d.val ELSE <<>>)))

\* Quantifier.__init__
QuantifierInit(cls, args, lazy, capture, flags, deflags) ==
    LET r == SegmentInit(cls, args, capture, flags, deflags)
    IN  IF r.exc # "" THEN r ELSE Ok([r.val EXCEPT !.lazy = lazy])

\* Repeat.__init__ without the comparison of n with m
RepeatInitUnordered(args, m, n, lazy, capture, flags, deflags) ==
    LET r == QuantifierInit("Repeat", args, lazy, capture, flags, deflags)
    IN  IF r.exc # "" THEN r
        ELSE IF m.i < 0 THEN Raise("ValueError")
        ELSE Ok([r.val EXCEPT !.m = m, !.n = n])

\* Repeat.__init__
RepeatInit(args, m, n, lazy, capture, flags, deflags) ==
    LET r == QuantifierInit("Repeat", args, lazy, capture, flags, deflags)
    IN  IF r.exc # "" THEN r
        ELSE IF m.i < 0 THEN Raise("ValueError")
        ELSE IF n # None /\ n.i < m.i THEN Raise("ValueError")
        ELSE Ok([r.val EXCEPT !.m = m, !.n = n])

\* RepeatExact.__init__
RepeatExactInit(args, m, lazy, capture, flags, deflags) ==
    LET r == QuantifierInit("RepeatExact", args, lazy, capture, flags, deflags)
    IN  IF r.exc # "" THEN r
        ELSE IF m.i <= 0 THEN Raise("ValueError")
        ELSE Ok([r.val EXCEPT !.m = m])

\* The number of digits of s from position p on.
DigitRun(s, p) ==
    IF p > Len(s) \/ s[p] \notin Digits THEN 0
    ELSE LET ends == {q \in p..Len(s) : \A j \in p..q : s[j] \in Digits}
         IN  Cardinality(ends)

\* re.match(r"\{\d+(?:,\d+)?\}", s): the pattern is looked for at the start of s.
MatchesRepeat(s) ==
    /\ Len(s) >= 3
    /\ s[1] = "{"
    /\ LET k == DigitRun(s, 2)
           p == 2 + k
       IN  /\ k >= 1
           /\ p <= Len(s)
           /\ \/ s[p] = "}"
              \/ /\ s[p] = ","
                 /\ LET k2 == DigitRun(s, p + 1)
                    IN  /\ k2 >= 1
                        /\ p + 1 + k2 <= Len(s)
                        /\ s[p + 1 + k2] = "}"

\* Lazy.__init__
LazyInit(args, capture, flags, deflags) ==
    IF Len(args) # 1 THEN Raise("ValueError")
    ELSE LET x == args[1]
         IN  IF IsQuantifier(x) \/ IsRaw(x)
             THEN SegmentInit("Lazy", args, capture, flags, deflags)
             ELSE IF IsSegment(x) THEN Raise("ValueError")
             ELSE IF Len(x.s) = 0 THEN Raise("IndexError")
             ELSE IF x.s[Len(x.s)] \in {"+", "*", "?"} \/ MatchesRepeat(x.s)
                  THEN SegmentInit("Lazy", args, capture, flags, deflags)
             ELSE Raise("ValueError")

\* Flag.__init__: args are the flags
FlagInit(args) ==
    LET t == _flags_to_str(PySeq(args))
    IN  IF t.exc # "" THEN Raise(t.exc)
        ELSE SegmentInit("Flag", <<PyStr(t.val)>>, False, None, None)

\* InlineFlag.__init__
InlineFlagInit(args, capture, flags, deflags) ==
    IF flags = None /\ deflags = None THEN Raise("ValueError")
    ELSE SegmentInit("InlineFlag", args, capture, flags, deflags)

\* Raw.__init__
RawInit(args, capture, entire, flags, deflags) ==
    IF \E i \in 1..Len(args) : ~IsStr(args[i]) THEN Raise("ValueError")
    ELSE LET r == SegmentInit("Raw", args, capture, flags, deflags)
         IN  IF r.exc # "" THEN r ELSE Ok([r.val EXCEPT !.entire = entire])

\* Capture.__init__
CaptureInit(args, name, capture, flags, deflags) ==
    LET c == IF name = None /\ capture = None THEN True
             ELSE IF capture = None THEN name
             ELSE capture
    IN  IF c = False THEN Raise("AssertionError")
        ELSE SegmentInit("Capture", args, c, flags, deflags)

\* NonCapture.__init__
NonCaptureInit(args, flags, deflags) ==
    SegmentInit("NonCapture", args, False, flags, deflags)

\* Conditional.__init__
ConditionalInit(id_or_name, yes, no, capture, flags, deflags) ==
    IF IsStr(capture) /\ ~IsIdentifier(capture.s) THEN Raise("ValueError")
    ELSE IF IsStr(id_or_name) /\ ~IsIdentifier(id_or_name.s) THEN Raise("ValueError")
    ELSE LET r == SegmentInit("Conditional", <<>>, capture, flags, deflags)
         IN  IF r.exc # "" THEN r
             ELSE Ok([r.val EXCEPT
                        !.id_or_name = id_or_name,
                        !.yes = IF IsStr(yes) THEN PyStr(Escape(yes.s)) ELSE yes,
                        !.no = IF IsStr(no) THEN PyStr(Escape(no.s)) ELSE no])

\* Captured.__init__ without the test of id_or_name
CapturedInitUnchecked(id_or_name, capture, flags, deflags) ==
    IF IsStr(capture) /\ ~IsIdentifier(capture.s) THEN Raise("ValueError")
    ELSE LET r == SegmentInit("Captured", <<>>, capture, flags, deflags)
         IN  IF r.exc # "" THEN r ELSE Ok([r.val EXCEPT !.id_or_name = id_or_name])

\* Captured.__init__
CapturedInit(id_or_name, capture, flags, deflags) ==
    IF IsStr(capture) /\ ~IsIdentifier(capture.s) THEN Raise("ValueError")
    ELSE IF IsStr(id_or_name) /\ ~IsIdentifier(id_or_name.s) THEN Raise("ValueError")
    ELSE LET r == SegmentInit("Captured", <<>>, capture, flags, deflags)
         IN  IF r.exc # "" THEN r ELSE Ok([r.val EXCEPT !.id_or_name = id_or_name])

(***************************************************************************)
(* The compact renderer                                                    *)
(***************************************************************************)
RECURSIVE Str(_), StrRaw(_), StrExc(_)

\* str(part) for a child that is a Segment or a string
StrOf(part) == IF IsSegment(part) THEN Str(part) ELSE part.s

\* Segment._str_raw: strings are escaped
SegmentStrRaw(node) ==
    Join(<<>>, [i \in 1..Len(node.args) |->
                  IF IsSegment(node.args[i]) THEN Str(node.args[i])
                  ELSE Escape(node.args[i].s)])

\* CharClass._str_raw and Raw._str_raw: strings are taken as they are
VerbatimStrRaw(node) ==
    Join(<<>>, [i \in 1..Len(node.args) |-> StrOf(node.args[i])])

\* Look._str_raw
LookStrRaw(node) == <<"(">> \o PREFIX(node.cls) \o SegmentStrRaw(node) \o <<")">>

\* The attribute or property _quantifier
_quantifier(node) ==
    CASE node.cls = "ZeroOrMore" -> <<"*">>
      [] node.cls = "OneOrMore" -> <<"+">>
      [] node.cls = "Maybe" -> <<"?">>
      [] node.cls = "Repeat" ->
            <<"{">> \o IntStr(node.m.i) \o <<",">>
            \o (IF node.n = None THEN <<>> ELSE IntStr(node.n.i)) \o <<"}">>
      [] OTHER -> <<"{">> \o IntStr(node.m.i) \o <<"}">>

\* NeedsGroup without the test of the length of a string operand
NeedsGroupIgnoringLength(node) ==
    LET a == node.args[1]
    IN  \/ Len(node.args) > 1
        \/ IsRaw(a) /\ ~Truthy(a.entire) /\ ~Truthy(a.capture)
        \/ /\ IsSegment(a)
           /\ a.cls \notin {"Raw", "Capture", "Captured"} \cup CharClassClasses
           /\ ~NONCAPTURING_WRAPPING(a.cls)
           /\ ~Truthy(a.capture)

\* The condition of Quantifier._str_raw under which the operand is put in a
\* non-capturing group; args is not empty.
NeedsGroup(node) ==
    LET a == node.args[1]
    IN  \/ Len(node.args) > 1
        \/ IsStr(a) /\ Len(a.s) > 1
        \/ IsRaw(a) /\ ~Truthy(a.entire) /\ ~Truthy(a.capture)
        \/ /\ IsSegment(a)
           /\ a.cls \notin {"Raw", "Capture", "Captured"} \cup CharClassClasses
           /\ ~NONCAPTURING_WRAPPING(a.cls)
           /\ ~Truthy(a.capture)

\* Quantifier._str_raw; with no args, self.args[0] raises IndexError (StrExc)
QuantifierStrRaw(node) ==
    LET qmark == IF Truthy(node.lazy) THEN <<"?">> ELSE <<>>
    IN  IF Len(node.args) = 0 THEN <<>>
        ELSE IF NeedsGroup(node)
             THEN <<"(", "?", ":">> \o SegmentStrRaw(node) \o <<")">>
                  \o _quantifier(node) \o qmark
             ELSE SegmentStrRaw(node) \o _quantifier(node) \o qmark

\* Or._str_raw
OrStrRaw(node) ==
    Join(<<"|">>, [i \in 1..Len(node.args) |-> StrOf(node.args[i])])

\* The selector text of Conditional._str_raw and Conditional._pretty_raw
SelectorText(node) ==
    LET id == IF IsCaptured(node.id_or_name) THEN node.id_or_name.id_or_name
              ELSE node.id_or_name
    IN  IF IsInt(id) THEN IntStr(id.i) ELSE id.s

\* Conditional._str_raw with | before every no branch that is not None
ConditionalStrRawAnyNo(node) ==
    LET no == IF node.no # None THEN <<"|">> \o StrOf(node.no) ELSE <<>>
    IN  <<"(", "?", "(">> \o SelectorText(node) \o <<")">>
        \o StrOf(node.yes) \o no \o <<")">>

\* Conditional._str_raw
ConditionalStrRaw(node) ==
    LET no == IF Truthy(node.no) THEN <<"|">> \o StrOf(node.no) ELSE <<>>
    IN  <<"(", "?", "(">> \o SelectorText(node) \o <<")">>
        \o StrOf(node.yes) \o no \o <<")">>

\* Captured._str_raw
CapturedStrRaw(node) ==
    IF IsStr(node.id_or_name)
    THEN <<"(", "?", "P", "=">> \o node.id_or_name.s \o <<")">>
    ELSE <<"\\">> \o IntStr(node.id_or_name.i)

\* self._str_raw(), by the class of self
StrRaw(node) ==
    CASE node.cls = "OneOfChars" -> <<"[">> \o VerbatimStrRaw(node) \o <<"]">>
      [] node.cls = "NoneOfChars" -> <<"[", "^">> \o VerbatimStrRaw(node) \o <<"]">>
      [] node.cls \in LookClasses -> LookStrRaw(node)
      [] node.cls \in QuantifierClasses -> QuantifierStrRaw(node)
      [] node.cls = "Lazy" -> SegmentStrRaw(node) \o <<"?">>
      [] node.cls = "Flag" -> <<"(", "?">> \o SegmentStrRaw(node) \o <<")">>
      [] node.cls = "Raw" -> VerbatimStrRaw(node)
      [] node.cls = "Or" -> OrStrRaw(node)
      [] node.cls = "Conditional" -> ConditionalStrRaw(node)
      [] node.cls = "Captured" -> CapturedStrRaw(node)
      [] OTHER -> SegmentStrRaw(node)

\* The opening and closing wrappers of Segment.__str__ and Segment.pretty
FlagsStart(node) ==
    IF node.flags # <<>> THEN <<"(", "?">> \o node.flags \o <<":">> ELSE <<>>

FlagsEnd(node) == IF node.flags # <<>> THEN <<")">> ELSE <<>>

CaptureStart(node) ==
    IF node.capture = True THEN <<"(">>
    ELSE IF Truthy(node.capture) THEN <<"(", "?", "P", "<">> \o node.capture.s \o <<">">>
    ELSE <<>>

CaptureEnd(node) == IF Truthy(node.capture) THEN <<")">> ELSE <<>>

\* Segment.__str__ adding the non-capturing group whatever the flags
StrGroupedWithFlags(node) ==
    LET arg == FlagsStart(node) \o StrRaw(node) \o FlagsEnd(node)
    IN  IF Truthy(node.capture) THEN CaptureStart(node) \o arg \o CaptureEnd(node)
        ELSE IF NONCAPTURING_WRAPPING(node.cls)
             THEN <<"(", "?", ":">> \o arg \o <<")">>
        ELSE arg

\* Segment.__str__
Str(node) ==
    LET arg == FlagsStart(node) \o StrRaw(node) \o FlagsEnd(node)
    IN  IF Truthy(node.capture) THEN CaptureStart(node) \o arg \o CaptureEnd(node)
        ELSE IF NONCAPTURING_WRAPPING(node.cls) /\ node.flags = <<>>
             THEN <<"(", "?", ":">> \o arg \o <<")">>
        ELSE arg

\* The Segments a rendering of node renders in turn
Rendered(node) ==
    SelectSeq(node.args \o (IF node.cls = "Conditional" THEN <<node.yes, node.no>> ELSE <<>>),
              IsSegment)

\* The exception str(node) raises, "" when it returns: a quantifier without
\* args reads self.args[0]; an exception of a child's rendering propagates.
StrExc(node) ==
    IF IsQuantifier(node) /\ Len(node.args) = 0 THEN "IndexError"
    ELSE LET kids == Rendered(node)
             bad == {i \in 1..Len(kids) : StrExc(kids[i]) # ""}
         IN  IF bad = {} THEN ""
             ELSE StrExc(kids[CHOOSE i \in bad : \A j \in bad : i <= j])

(***************************************************************************)
(* The pretty renderer                                                     *)
(***************************************************************************)
RECURSIVE Pretty(_, _, _), PrettyRaw(_, _)

NL == <<"\n">>

\* Segment._pretty_raw with the children one after the other on one line
SegmentPrettyRawOneLine(node, indent) ==
    Join(<<>>, [i \in 1..Len(node.args) |->
                  IF IsSegment(node.args[i]) THEN Pretty(node.args[i], indent, 0)
                  ELSE Escape(node.args[i].s)])

\* Segment._pretty_raw
SegmentPrettyRaw(node, indent) ==
    Join(NL, [i \in 1..Len(node.args) |->
                IF IsSegment(node.args[i]) THEN Pretty(node.args[i], indent, 0)
                ELSE Escape(node.args[i].s)])

\* Look._pretty_raw
LookPrettyRaw(node, indent) ==
    LET prettied == SegmentPrettyRaw(node, indent)
    IN  IF ~Contains(prettied, "\n")
        THEN <<"(">> \o PREFIX(node.cls) \o prettied \o <<")">>
        ELSE Join(NL, <<<<"(">> \o PREFIX(node.cls)>>
                      \o Prefixed(indent, SplitLines(prettied))
                      \o <<<<")">>>>)

\* Or._pretty_raw
OrPrettyRaw(node, indent) ==
    LET out == [i \in 1..Len(node.args) |->
                  IF IsSegment(node.args[i]) THEN Pretty(node.args[i], indent, 0)
                  ELSE node.args[i].s]
        has_newline == \E i \in 1..Len(out) : Contains(out[i], "\n")
    IN  IF ~has_newline THEN Join(<<"|">>, out) ELSE Join(<<"\n", "|">>, out)

\* Conditional._pretty_raw
ConditionalPrettyRaw(node, indent) ==
    LET yes == IF IsSegment(node.yes) THEN Pretty(node.yes, indent, 0) ELSE node.yes.s
        no == IF ~Truthy(node.no) THEN <<>>
              ELSE IF IsSegment(node.no) THEN <<"|">> \o Pretty(node.no, indent, 0)
              ELSE <<"|">> \o node.no.s
        head == <<"(", "?", "(">> \o SelectorText(node) \o <<")">>
    IN  IF Contains(yes, "\n") \/ Contains(no, "\n")
        THEN head \o NL
             \o Join(NL, Prefixed(indent, SplitNewline(yes))) \o NL
             \o Join(NL, Prefixed(indent, SplitNewline(no))) \o NL
             \o <<")">>
        ELSE head \o yes \o no \o <<")">>

\* self._pretty_raw(indent), by the class of self
PrettyRaw(node, indent) ==
    CASE node.cls \in CharClassClasses \cup QuantifierClasses
                      \cup {"Flag", "Raw", "Captured"} -> StrRaw(node)
      [] node.cls \in LookClasses -> LookPrettyRaw(node, indent)
      [] node.cls = "Lazy" -> SegmentPrettyRaw(node, indent) \o <<"?">>
      [] node.cls = "Or" -> OrPrettyRaw(node, indent)
      [] node.cls = "Conditional" -> ConditionalPrettyRaw(node, indent)
      [] OTHER -> SegmentPrettyRaw(node, indent)

\* Segment.pretty with the inner lines at the level of the wrapper
PrettyInnerNotIndented(node, indent, level) ==
    LET arg == PrettyRaw(node, indent)
        pad == Times(indent, level)
        start == IF Truthy(node.capture)
                 THEN pad \o CaptureStart(node) \o FlagsStart(node)
                 ELSE IF NONCAPTURING_WRAPPING(node.cls) /\ node.flags = <<>>
                      THEN pad \o <<"(", "?", ":">>
                 ELSE pad \o FlagsStart(node)
        end == IF Truthy(node.capture)
               THEN pad \o FlagsEnd(node) \o CaptureEnd(node)
               ELSE IF NONCAPTURING_WRAPPING(node.cls) /\ node.flags = <<>>
                    THEN pad \o <<")">>
               ELSE pad \o FlagsEnd(node)
    IN  IF ~Truthy(node.capture) /\ ~NONCAPTURING_WRAPPING(node.cls) /\ node.flags = <<>>
        THEN Join(NL, Prefixed(pad, SplitLines(arg)))
        ELSE IF ~Contains(arg, "\n") THEN start \o arg \o end
        ELSE Join(NL, <<start>> \o Prefixed(pad, SplitLines(arg)) \o <<end>>)

\* Segment.pretty
Pretty(node, indent, level) ==
    LET arg == PrettyRaw(node, indent)
        pad == Times(indent, level)
        start == IF Truthy(node.capture)
                 THEN pad \o CaptureStart(node) \o FlagsStart(node)
                 ELSE IF NONCAPTURING_WRAPPING(node.cls) /\ node.flags = <<>>
                      THEN pad \o <<"(", "?", ":">>
                 ELSE pad \o FlagsStart(node)
        end == IF Truthy(node.capture)
               THEN pad \o FlagsEnd(node) \o CaptureEnd(node)
               ELSE IF NONCAPTURING_WRAPPING(node.cls) /\ node.flags = <<>>
                    THEN pad \o <<")">>
               ELSE pad \o FlagsEnd(node)
    IN  IF ~Truthy(node.capture) /\ ~NONCAPTURING_WRAPPING(node.cls) /\ node.flags = <<>>
        THEN Join(NL, Prefixed(pad, SplitLines(arg)))
        ELSE IF ~Contains(arg, "\n") THEN start \o arg \o end
        ELSE Join(NL, <<start>>
                      \o Prefixed(Times(indent, level + 1), SplitLines(arg))
                      \o <<end>>)

\* The exception node.pretty(indent, level) raises, "" when it returns: the
\* pretty renderer of a quantifier is its _str_raw, and every child is
\* rendered by its own pretty.
PrettyExc(node) == StrExc(node)

(***************************************************************************)
(* Regexr                                                                  *)
(***************************************************************************)
\* Regexr.__new__: the outcome, an object with the string value and _segments
RegexrNew(segments) ==
    IF (\E i \in 1..Len(segments) : IsFlag(segments[i])) /\ ~IsFlag(segments[1])
    THEN Raise("ValueError")
    ELSE LET bad == {i \in 1..Len(segments) :
                        IsSegment(segments[i]) /\ StrExc(segments[i]) # ""}
         IN  IF bad # {} THEN Raise("IndexError")
             ELSE Ok([value |-> Join(<<>>, [i \in 1..Len(segments) |->
                                      IF IsStr(segments[i]) THEN Escape(segments[i].s)
                                      ELSE Str(segments[i])]),
                      _segments |-> segments])

\* Regexr.pretty
RegexrPretty(regexr, indent) ==
    Join(NL, [i \in 1..Len(regexr._segments) |->
                IF IsSegment(regexr._segments[i])
                THEN Pretty(regexr._segments[i], indent, 0)
                ELSE Escape(regexr._segments[i].s)])

(***************************************************************************)
(* The state: what a caller composing a pattern holds.                     *)
(*   node     - the Segment the last constructor call built, None when it  *)
(*              raised or nothing was built yet                            *)
(*   call     - the last constructor call: the class and the arguments     *)
(*   exc      - the exception the last operation raised, "" when none      *)
(*   out      - str(node), when it was taken since node was built          *)
(*   prettied - node.pretty(indent, level) with its arguments, likewise    *)
(*   regexr   - the Regexr composed from node and literal segments, with   *)
(*              its pretty() once taken                                    *)
(***************************************************************************)
VARIABLES node, call, exc, out, prettied, regexr

vars == <<node, call, exc, out, prettied, regexr>>

Init ==
    /\ node = None
    /\ call = None
    /\ exc = ""
    /\ out = None
    /\ prettied = None
    /\ regexr = None

\* The keyword arguments of a call; those the class does not take are None.
Kw(capture, flags, deflags) ==
    [capture |-> capture, flags |-> flags, deflags |-> deflags,
     lazy |-> None, m |-> None, n |-> None, entire |-> None, name |-> None,
     id_or_name |-> None, yes |-> None, no |-> None]

\* The outcome of a constructor call becomes the state.
Built(cls, args, kw, res) ==
    /\ call' = [cls |-> cls, args |-> args, kw |-> kw]
    /\ exc' = res.exc
    /\ node' = res.val
    /\ out' = None
    /\ prettied' = None
    /\ regexr' = None

(***************************************************************************)
(* The constructor calls. Calls is the set of the positional and keyword   *)
(* arguments the call is made with, [args, kw].                            *)
(***************************************************************************)
\* OneOfChars, NoneOfChars, the lookarounds, Or, Concat: Segment.__init__
NewSegment(Calls) ==
    \E cls \in PlainClasses, c \in Calls :
        Built(cls, c.args, c.kw,
              SegmentInit(cls, c.args, c.kw.capture, c.kw.flags, c.kw.deflags))

\* ZeroOrMore, OneOrMore, Maybe: Quantifier.__init__
NewQuantifier(Calls) ==
    \E cls \in SimpleQuantifierClasses, c \in Calls :
        Built(cls, c.args, c.kw,
              QuantifierInit(cls, c.args, c.kw.lazy, c.kw.capture, c.kw.flags, c.kw.deflags))

NewRepeat(Calls) ==
    \E c \in Calls :
        Built("Repeat", c.args, c.kw,
              RepeatInit(c.args, c.kw.m, c.kw.n, c.kw.lazy,
                         c.kw.capture, c.kw.flags, c.kw.deflags))

NewRepeatExact(Calls) ==
    \E c \in Calls :
        Built("RepeatExact", c.args, c.kw,
              RepeatExactInit(c.args, c.kw.m, c.kw.lazy,
                              c.kw.capture, c.kw.flags, c.kw.deflags))

NewLazy(Calls) ==
    \E c \in Calls :
        Built("Lazy", c.args, c.kw,
              LazyInit(c.args, c.kw.capture, c.kw.flags, c.kw.deflags))

\* Flag(*args): the positional arguments are the flags
NewFlag(Calls) ==
    \E c \in Calls : Built("Flag", c.args, c.kw, FlagInit(c.args))

NewInlineFlag(Calls) ==
    \E c \in Calls :
        Built("InlineFlag", c.args, c.kw,
              InlineFlagInit(c.args, c.kw.capture, c.kw.flags, c.kw.deflags))

NewRaw(Calls) ==
    \E c \in Calls :
        Built("Raw", c.args, c.kw,
              RawInit(c.args, c.kw.capture, c.kw.entire, c.kw.flags, c.kw.deflags))

NewCapture(Calls) ==
    \E c \in Calls :
        Built("Capture", c.args, c.kw,
              CaptureInit(c.args, c.kw.name, c.kw.capture, c.kw.flags, c.kw.deflags))

NewNonCapture(Calls) ==
    \E c \in Calls :
        Built("NonCapture", c.args, c.kw,
              NonCaptureInit(c.args, c.kw.flags, c.kw.deflags))

\* Conditional(id_or_name, yes, no, ...): no positional children
NewConditional(Calls) ==
    \E c \in Calls :
        Built("Conditional", c.args, c.kw,
              ConditionalInit(c.kw.id_or_name, c.kw.yes, c.kw.no,
                              c.kw.capture, c.kw.flags, c.kw.deflags))

NewCaptured(Calls) ==
    \E c \in Calls :
        Built("Captured", c.args, c.kw,
              CapturedInit(c.kw.id_or_name, c.kw.capture, c.kw.flags, c.kw.deflags))

\* cls(*args, **kw)
Construct(cls, args, kw) ==
    CASE cls \in PlainClasses -> SegmentInit(cls, args, kw.capture, kw.flags, kw.deflags)
      [] cls \in SimpleQuantifierClasses ->
            QuantifierInit(cls, args, kw.lazy, kw.capture, kw.flags, kw.deflags)
      [] cls = "Repeat" ->
            RepeatInit(args, kw.m, kw.n, kw.lazy, kw.capture, kw.flags, kw.deflags)
      [] cls = "RepeatExact" ->
            RepeatExactInit(args, kw.m, kw.lazy, kw.capture, kw.flags, kw.deflags)
      [] cls = "Lazy" -> LazyInit(args, kw.capture, kw.flags, kw.deflags)
      [] cls = "Flag" -> FlagInit(args)
      [] cls = "InlineFlag" -> InlineFlagInit(args, kw.capture, kw.flags, kw.deflags)
      [] cls = "Raw" -> RawInit(args, kw.capture, kw.entire, kw.flags, kw.deflags)
      [] cls = "Capture" -> CaptureInit(args, kw.name, kw.capture, kw.flags, kw.deflags)
      [] cls = "NonCapture" -> NonCaptureInit(args, kw.flags, kw.deflags)
      [] cls = "Conditional" ->
            ConditionalInit(kw.id_or_name, kw.yes, kw.no, kw.capture, kw.flags, kw.deflags)
      [] OTHER -> CapturedInit(kw.id_or_name, kw.capture, kw.flags, kw.deflags)

(***************************************************************************)
(* The renderings                                                          *)
(***************************************************************************)
\* str(node) that escapes the strings of self.args in place
TakeStrEscapingInPlace ==
    /\ IsSegment(node)
    /\ exc' = StrExc(node)
    /\ out' = IF StrExc(node) = "" THEN PyStr(Str(node)) ELSE None
    /\ prettied' = None
    /\ regexr' = None
    /\ node' = [node EXCEPT !.args = [k \in 1..Len(node.args) |->
                                        IF IsStr(node.args[k])
                                        THEN PyStr(Escape(node.args[k].s))
                                        ELSE node.args[k]]]
    /\ UNCHANGED call

\* str(node)
TakeStr ==
    /\ IsSegment(node)
    /\ exc' = StrExc(node)
    /\ out' = IF StrExc(node) = "" THEN PyStr(Str(node)) ELSE None
    /\ prettied' = None
    /\ regexr' = None
    /\ UNCHANGED <<node, call>>

\* node.pretty(indent, level)
TakePretty(Indents, Levels) ==
    \E indent \in Indents, level \in Levels :
        /\ IsSegment(node)
        /\ exc' = PrettyExc(node)
        /\ prettied' = IF PrettyExc(node) = ""
                       THEN [indent |-> indent, level |-> level,
                             val |-> Pretty(node, indent, level)]
                       ELSE None
        /\ out' = None
        /\ regexr' = None
        /\ UNCHANGED <<node, call>>

\* Regexr(*segments)
NewRegexr(SegLists) ==
    \E segments \in SegLists :
        LET r == RegexrNew(segments)
        IN  /\ exc' = r.exc
            /\ regexr' = r.val
            /\ out' = None
            /\ prettied' = None
            /\ UNCHANGED <<node, call>>

\* regexr.pretty(indent)
TakeRegexrPretty(Indents) ==
    \E indent \in Indents :
        /\ regexr # None
        /\ exc' = ""
        /\ prettied' = [indent |-> indent, level |-> 0,
                        val |-> RegexrPretty(regexr, indent)]
        /\ out' = None
        /\ UNCHANGED <<node, call, regexr>>

(***************************************************************************)
(* Bounds and the sets the arguments of the composing calls are drawn from *)
(***************************************************************************)
\* The largest Segment that is composed further (see Size).
MaxSize == 2

\* The deepest nesting of the Segments that are composed further.
MaxDepth == 1

\* The largest indent level pretty is called with.
MaxLevel == 1

t_a == <<"a">>

t_a_dot == <<"a", ".">>

t_dot == <<".">>

t_n == <<"n">>

t_i == <<"i">>

t_s == <<"s">>

Dot == PyStr(t_dot)

RECURSIVE Depth(_)
Depth(x) ==
    IF ~IsSegment(x) THEN 0
    ELSE LET kids == Rendered(x)
             ds == {Depth(kids[i]) : i \in 1..Len(kids)}
         IN  1 + (IF ds = {} THEN 0 ELSE CHOOSE d \in ds : \A e \in ds : e <= d)

RECURSIVE Size(_), SizeAll(_)
\* The size of a value: the characters of its strings, its Segments and the
\* keyword arguments that were set.
Size(x) ==
    IF IsSegment(x)
    THEN 1 + SizeAll(x.args) + Size(x.capture) + (IF x.flags = <<>> THEN 0 ELSE 1)
         + Size(x.lazy) + Size(x.m) + Size(x.n) + Size(x.entire)
         + Size(x.id_or_name) + Size(x.yes) + Size(x.no)
    ELSE CASE x.t = "none" -> 0
           [] x.t = "bool" -> IF x.b THEN 1 ELSE 0
           [] x.t = "str" -> Len(x.s)
           [] OTHER -> 1

SizeAll(xs) == IF xs = <<>> THEN 0 ELSE Size(Head(xs)) + SizeAll(Tail(xs))

\* The Segment built last, when it is small enough to be composed further.
Small(x) == {y \in {x} : IsSegment(y) /\ Depth(y) <= MaxDepth /\ Size(y) <= MaxSize}

\* Compositions of the test suite (src/tests/test_str.py, test_pretty):
\* Capture("a", "b") and Capture("b", Capture("c", name="d"))
CaptureAB ==
    CaptureInit(<<PyStr(t_a), PyStr(<<"b">>)>>, None, None, None, None).val

CaptureBCD ==
    CaptureInit(<<PyStr(<<"b">>),
                  CaptureInit(<<PyStr(<<"c">>)>>, PyStr(<<"d">>), None, None, None).val>>,
                None, None, None, None).val

Fixtures == {CaptureAB, CaptureBCD}

Plain == Kw(False, None, None)

\* capture, flags and deflags
FewDecorations == {Plain, Kw(True, None, None), Kw(False, PyStr(t_i), None)}

Decorations ==
    FewDecorations
    \cup {Kw(PyStr(t_n), None, None), Kw(False, PyStr(t_i), PyStr(t_s)),
          Kw(True, PyStr(t_i), None), Kw(PyStr(t_n), PyStr(t_i), PyStr(t_s))}

Calls(Args, Kws) == {[args |-> a, kw |-> k] : a \in Args, k \in Kws}

With(Cs, field, Vals) == {[c EXCEPT !.kw[field] = v] : c \in Cs, v \in Vals}

\* The positional arguments: literal strings, ...
LitLists == {<<>>, <<Dot>>, <<PyStr(t_a_dot)>>, <<PyStr(t_a_dot), Dot>>}

\* ... the compositions of the test suite ...
FixtureLists ==
    {<<f>> : f \in Fixtures} \cup {<<Dot, f>> : f \in Fixtures}
    \cup {<<f, Dot>> : f \in Fixtures} \cup {<<PyStr(<<" ">>), f>> : f \in Fixtures}

\* ... and the Segment built last.
NestLists(x) == {<<p>> : p \in Small(x)} \cup {<<Dot, p>> : p \in Small(x)}

\* The calls on literal arguments: every decoration on one literal, few on
\* the others, none on a composition of the test suite.
LitCalls ==
    Calls(LitLists, FewDecorations) \cup Calls({<<PyStr(t_a_dot)>>}, Decorations)
    \cup Calls(FixtureLists, {Plain})

\* A quantifier on the empty string
EmptyLitCalls == Calls({<<PyStr(<<>>)>>}, {Plain})

NestCalls(x) == Calls(NestLists(x), {Plain})

\* A call on literal arguments is the first call, a call on the Segment built
\* last is made before that Segment is rendered. (A call reads nothing of the
\* state but its arguments.)
Fresh == out = None /\ prettied = None /\ regexr = None

From(Lit, Nest) == IF call = None THEN Lit ELSE IF Fresh THEN Nest ELSE {}

Lazily(Cs) == With(Cs, "lazy", {False, True})

Eagerly(Cs) == With(Cs, "lazy", {False})

Repeats(Cs) == With(With(Cs, "m", {PyInt(1)}), "n", {None, PyInt(2)})

Exactly(Cs) == With(Cs, "m", {PyInt(2)})

Indents == {<<" ", " ">>, <<"x">>}

RawLitCalls ==
    With(Calls({<<>>, <<PyStr(t_a)>>, <<PyStr(<<"a", "|", "b">>)>>, <<PyStr(<<" ", "+">>)>>,
                <<PyStr(<<"a", "?">>)>>, <<PyStr(<<"a", "\n">>)>>,
                <<PyStr(<<"\\", "d">>), PyStr(<<"+">>)>>},
               FewDecorations),
         "entire", {False, True})

LazyLitCalls ==
    Calls({<<>>, <<PyStr(t_a)>>, <<PyStr(<<"a", "*">>)>>, <<PyStr(t_a), PyStr(t_a)>>},
          FewDecorations)

OneCalls(x) == Calls({<<p>> : p \in Small(x)}, {Plain})

FlagCalls == Calls({<<>>, <<PyStr(t_i)>>, <<PyInt(RE_I), PyStr(t_s)>>}, {Plain})

Flagged(Cs) == With(Cs, "flags", {PyStr(t_i)})

Named(Cs) ==
    {[c EXCEPT !.kw.name = nc[1], !.kw.capture = nc[2]] :
        c \in {d \in Cs : d.kw.capture = False},
        nc \in {<<None, None>>, <<PyStr(t_n), None>>, <<PyStr(t_n), True>>}}

Uncaptured(Cs) == {c \in Cs : c.kw.capture = False}

Branches(Kws, Ids, Yes, No) ==
    {[args |-> <<>>, kw |-> [k EXCEPT !.id_or_name = i, !.yes = y, !.no = n]] :
        k \in Kws, i \in Ids, y \in Yes, n \in No}

CapturedCalls == Branches(Decorations, {PyInt(1), PyStr(t_n)}, {None}, {None})

ConditionalLitCalls ==
    Branches(FewDecorations, {PyInt(1), PyStr(t_n)}, {Dot, PyStr(t_a_dot)},
             {None, Dot, PyStr(<<>>)})
    \cup Branches({Plain}, {PyInt(1)}, {Dot} \cup Fixtures, {None} \cup Fixtures)

ConditionalNestCalls(x) ==
    Branches({Plain}, {PyInt(1)} \cup {s \in Small(x) : IsCaptured(s)},
             {Dot} \cup Small(x), {None, Dot} \cup Small(x))
    \ ConditionalLitCalls

SegLists(x) == {<<Dot, p>> : p \in {y \in {x} : IsSegment(y)}}

Next ==
    \/ NewSegment(From(LitCalls, NestCalls(node)))
    \/ NewQuantifier(From(Lazily(LitCalls \cup EmptyLitCalls), Eagerly(NestCalls(node))))
    \/ NewRepeat(From(Repeats(Lazily(LitCalls)), Repeats(Eagerly(NestCalls(node)))))
    \/ NewRepeatExact(From(Exactly(Lazily(LitCalls)), Exactly(Eagerly(NestCalls(node)))))
    \/ NewLazy(From(LazyLitCalls, OneCalls(node)))
    \/ NewFlag(From(FlagCalls, {}))
    \/ NewInlineFlag(From(LitCalls, Flagged(NestCalls(node))))
    \/ NewRaw(From(RawLitCalls, With(OneCalls(node), "entire", {False})))
    \/ NewCapture(From(Named(LitCalls), NestCalls(node)))
    \/ NewNonCapture(From(Uncaptured(LitCalls), NestCalls(node)))
    \/ NewConditional(From(ConditionalLitCalls, ConditionalNestCalls(node)))
    \/ NewCaptured(From(CapturedCalls, {}))
    \/ TakeStr
    \/ TakePretty(Indents, 0..MaxLevel)
    \/ NewRegexr(SegLists(node))
    \/ TakeRegexrPretty(Indents)

Spec == Init /\ [][Next]_vars

(***************************************************************************)
(* The constructor calls on their own: every class is called once on       *)
(* arguments that include the ones its constructor rejects; Lazy and       *)
(* Conditional are then called on the Segment built.                       *)
(***************************************************************************)
\* The largest m and n Repeat and RepeatExact are called with.
MaxRepeat == 2

t_a_b == <<"a", ".", "b">>

CtorCaptures == {False, True, PyStr(t_n), PyStr(t_a_b)}

CtorFlags ==
    {None, PyStr(t_i), PyStr(<<"i", "s">>), PyStr(<<"z">>), PyInt(RE_I),
     PySeq(<<PyStr(t_s), PyInt(RE_I)>>), PySeq(<<PyStr(t_i), PyStr(<<"z">>)>>)}

CtorDeflags == {None, PyStr(t_i), PyStr(t_s), PyInt(RE_S), PyStr(<<"s", "z">>)}

CtorKws == {Kw(c, f, d) : c \in CtorCaptures, f \in CtorFlags, d \in CtorDeflags}

CtorCalls == Calls({<<PyStr(t_a)>>}, CtorKws)

Counts == {PyInt(i) : i \in -1..MaxRepeat}

\* The texts Lazy and Raw are called with
QuantifiedTexts ==
    {<<>>, t_a, <<"a", "*">>, <<"a", "+">>, <<"a", "?">>, <<"a", "{", "1", "}">>,
     <<"{", "1", "}", "a">>, <<"a", "{", "1", ",", "}">>, <<"a", "{", "1", ",", "2", "}">>,
     <<"{", "1", ",", "2", "}">>}

TextLists == {<<>>, <<PyStr(t_a), PyStr(<<"*">>)>>} \cup {<<PyStr(s)>> : s \in QuantifiedTexts}

CtorLazyCalls ==
    Calls(TextLists, FewDecorations) \cup Calls({<<PyStr(<<"a", "*">>)>>, <<PyStr(<<>>)>>}, CtorKws)

CtorRawCalls ==
    With(Calls(TextLists, FewDecorations) \cup CtorCalls, "entire", {False, True})

CtorFlagCalls ==
    FlagCalls \cup Calls({<<PyStr(<<"z">>)>>, <<PyStr(<<"i", "s">>)>>, <<PyInt(RE_X)>>,
                          <<PyStr(t_i), PyStr(<<"z">>)>>}, {Plain})

CtorCaptureCalls ==
    {[c EXCEPT !.kw.name = n, !.kw.capture = k] :
        c \in Calls({<<PyStr(t_a)>>},
                    {Kw(False, f, d) : f \in {None, PyStr(t_i)}, d \in {None, PyStr(t_i), PyStr(t_s)}}),
        n \in {None, True, PyStr(t_n), PyStr(t_a_b)},
        k \in {None} \cup CtorCaptures}

Selectors == {PyInt(i) : i \in -1..1} \cup {PyStr(t_n), PyStr(t_a_b)}

CtorConditionalCalls == Branches(CtorKws, Selectors, {Dot}, {None, Dot})

CtorConditionalNestCalls(x) ==
    Branches(FewDecorations, {s \in Small(x) : IsCaptured(s)}, {Dot}, {None, Dot})

CtorCapturedCalls == Branches(CtorKws, Selectors, {None}, {None})

NextCtor ==
    \/ NewSegment(From(CtorCalls, {}))
    \/ NewQuantifier(From(Lazily(CtorCalls), {}))
    \/ NewRepeat(From(With(With(Lazily(CtorCalls), "m", Counts), "n", {None} \cup Counts), {}))
    \/ NewRepeatExact(From(With(Lazily(CtorCalls), "m", Counts), {}))
    \/ NewLazy(From(CtorLazyCalls, Calls({<<p>> : p \in Small(node)}, FewDecorations)))
    \/ NewFlag(From(CtorFlagCalls, {}))
    \/ NewInlineFlag(From(CtorCalls, {}))
    \/ NewRaw(From(CtorRawCalls, {}))
    \/ NewCapture(From(CtorCaptureCalls, {}))
    \/ NewNonCapture(From(Uncaptured(CtorCalls), {}))
    \/ NewConditional(From(CtorConditionalCalls, CtorConditionalNestCalls(node)))
    \/ NewCaptured(From(CtorCapturedCalls, {}))

SpecCtor == Init /\ [][NextCtor]_vars

(***************************************************************************)
(* The claims                                                              *)
(***************************************************************************)
\* sub is a run of consecutive characters of s
Occurs(sub, s) ==
    \E i \in 0..(Len(s) - Len(sub)) : \A j \in 1..Len(sub) : s[i + j] = sub[j]

\* The literal strings the last call was given as children: its positional
\* strings, and the yes and no branches of a Conditional
LiteralChildren ==
    {call.args[i].s : i \in {j \in 1..Len(call.args) : IsStr(call.args[j])}}
    \cup {v.s : v \in {w \in {call.kw.yes, call.kw.no} : IsStr(w)}}

\* The node built last is rendered compactly
Compacted == IsSegment(node) /\ out # None

\* C1: every literal string given directly as a child of a node other than Raw
\* and the character classes (Flag takes flags, not children), or as a segment
\* of a Regexr, appears in the compact rendering in its re.escape form.
C1_LiteralsEscaped ==
    /\ (Compacted /\ call.cls \notin {"Raw", "Flag"} \cup CharClassClasses)
            => \A s \in LiteralChildren : Occurs(Escape(s), out.s)
    /\ regexr # None
            => \A i \in 1..Len(regexr._segments) :
                    IsStr(regexr._segments[i])
                        => Occurs(Escape(regexr._segments[i].s), regexr.value)

\* The text of the quantifier the last call asks for
QuantifierSymbol ==
    CASE call.cls = "ZeroOrMore" -> <<"*">>
      [] call.cls = "OneOrMore" -> <<"+">>
      [] call.cls = "Maybe" -> <<"?">>
      [] call.cls = "Repeat" /\ call.kw.n = None -> <<"{">> \o NatStr(call.kw.m.i) \o <<",", "}">>
      [] call.cls = "Repeat" ->
            <<"{">> \o NatStr(call.kw.m.i) \o <<",">> \o NatStr(call.kw.n.i) \o <<"}">>
      [] OTHER -> <<"{">> \o NatStr(call.kw.m.i) \o <<"}">>

Undecorated == call.kw.capture = False /\ call.kw.flags = None /\ call.kw.deflags = None

\* The last call is a quantifier on one literal string of more than one character
QuantifiedLiteral ==
    /\ Compacted
    /\ call.cls \in QuantifierClasses
    /\ Len(call.args) = 1
    /\ IsStr(call.args[1])
    /\ Len(call.args[1].s) > 1

\* C2: a quantifier whose only child is a literal string of more than one
\* character renders as (?: + the escaped literal + ) + the quantifier symbol
\* + ? when lazy; this is the whole rendering when the node has neither
\* capture nor flags, and is inside the group of the capture or flags otherwise.
C2_MultiCharOperandGrouped ==
    QuantifiedLiteral =>
        LET body == <<"(", "?", ":">> \o Escape(call.args[1].s) \o <<")">>
                    \o QuantifierSymbol
                    \o (IF call.kw.lazy = True THEN <<"?">> ELSE <<>>)
        IN  /\ Occurs(body, out.s)
            /\ Undecorated => out.s = body

C2_Witness ==
    /\ QuantifiedLiteral
    /\ call.cls = "ZeroOrMore"
    /\ call.kw.lazy = True
    /\ out.s = <<"(", "?", ":", "a", "\\", ".", ")", "*", "?">>

\* The flags of the last call as they are written in an inline flag group
FlagText ==
    (IF call.kw.flags = None THEN <<>> ELSE call.kw.flags.s)
    \o (IF call.kw.deflags = None THEN <<>> ELSE <<"-">> \o call.kw.deflags.s)

\* The last call is an Or with capture disabled
UncapturedOr == Compacted /\ call.cls = "Or" /\ call.kw.capture = False

\* C3: an Or with capture disabled renders as its branches' renderings joined
\* by | inside exactly one group: (?: ... ) without flags, (?flags: ... ) with
\* flags. (A branch that is a string is taken as Or renders it; its escaping
\* is the matter of C1.)
C3_OrInOneGroup ==
    UncapturedOr =>
        LET branches == Join(<<"|">>, [i \in 1..Len(call.args) |->
                                         IF IsStr(call.args[i]) THEN call.args[i].s
                                         ELSE Str(call.args[i])])
        IN  out.s = (IF FlagText = <<>> THEN <<"(", "?", ":">>
                     ELSE <<"(", "?">> \o FlagText \o <<":">>)
                    \o branches \o <<")">>

C3_Witness ==
    /\ UncapturedOr
    /\ call.kw.flags # None
    /\ Len(call.args) = 2
    /\ \E i \in 1..Len(out.s) : out.s[i] = "|"

RECURSIVE LStrip(_)
\* line without its leading whitespace
LStrip(line) ==
    IF line # <<>> /\ Head(line) \in Whitespace THEN LStrip(Tail(line)) ELSE line

\* The lines of text without their leading whitespace, joined with no separator
StripJoin(text) ==
    LET lines == SplitNewline(text)
    IN  Join(<<>>, [i \in 1..Len(lines) |-> LStrip(lines[i])])

\* The pretty rendering taken last and the compact rendering of the same tree
PrettyTaken == prettied # None

CompactOfPrettied == IF regexr # None THEN regexr.value ELSE Str(node)

\* C4: for every tree and every indent string, the lines of the pretty
\* rendering without their leading whitespace, joined with no separator, are
\* the compact rendering.
C4_StrippedPrettyIsCompact ==
    PrettyTaken => StripJoin(prettied.val) = CompactOfPrettied

\* C5: rendering cannot fail: str(node) and node.pretty(indent, level) of a
\* node whose constructor returned raise no exception. (exc is "" after the
\* constructor returned, and then holds the outcome of the rendering taken.)
C5_RenderingNeverRaises == IsSegment(node) => exc = ""

\* C6: Repeat raises ValueError when m < 0 or when n is given and n < m,
\* RepeatExact raises ValueError when m <= 0; a constructed Repeat has m >= 0
\* and n absent or n >= m, a constructed RepeatExact has m > 0.
C6_BoundsValidated ==
    /\ (call # None /\ call.cls = "Repeat") =>
            /\ (call.kw.m.i < 0 \/ (call.kw.n # None /\ call.kw.n.i < call.kw.m.i))
                    => node = None /\ exc = "ValueError"
            /\ IsSegment(node)
                    => node.m.i >= 0 /\ (node.n = None \/ node.n.i >= node.m.i)
    /\ (call # None /\ call.cls = "RepeatExact") =>
            /\ call.kw.m.i <= 0 => node = None /\ exc = "ValueError"
            /\ IsSegment(node) => node.m.i > 0

\* Repeat("a", m=2, n=1), lazy or not, is rejected
C6_Witness ==
    /\ call # None
    /\ call.cls = "Repeat"
    /\ Undecorated
    /\ call.kw.m = PyInt(2)
    /\ call.kw.n = PyInt(1)
    /\ node = None
    /\ exc = "ValueError"

\* s ends in {m}, {m,} or {m,n}
EndsInRepeat(s) ==
    /\ s # <<>>
    /\ s[Len(s)] = "}"
    /\ \E i \in 1..Len(s) :
            /\ s[i] = "{"
            /\ LET inner == SubSeq(s, i + 1, Len(s) - 1)
                   commas == {j \in 1..Len(inner) : inner[j] = ","}
               IN  /\ \A j \in 1..Len(inner) : inner[j] \in Digits \cup {","}
                   /\ Cardinality(commas) <= 1
                   /\ inner # <<>> /\ inner[1] \in Digits

\* x is already quantified: a Quantifier node, or the text of a string or of a
\* Raw node that ends in +, * or ? or in a bounded repeat
AlreadyQuantified(x) ==
    \/ IsQuantifier(x)
    \/ LET text == IF IsStr(x) THEN x.s
                   ELSE IF IsRaw(x) THEN Join(<<>>, [i \in 1..Len(x.args) |-> x.args[i].s])
                   ELSE <<>>
       IN  /\ text # <<>>
           /\ text[Len(text)] \in {"+", "*", "?"} \/ EndsInRepeat(text)

\* C7: Lazy(x) on exactly one operand (and keyword arguments that are accepted)
\* constructs if and only if x is already quantified, and raises ValueError
\* in every other case.
C7_LazyIffQuantified ==
    (call # None /\ call.cls = "Lazy" /\ Len(call.args) = 1 /\ call.kw \in FewDecorations) =>
        IF AlreadyQuantified(call.args[1])
        THEN IsSegment(node) /\ exc = ""
        ELSE node = None /\ exc = "ValueError"

\* v is a string that is not a valid identifier
BadName(v) == IsStr(v) /\ ~IsIdentifier(v.s)

\* The strings a constructed node keeps as capture designator and as the
\* target of a Captured or the selector of a Conditional are identifiers
KeptNamesAreIdentifiers ==
    IsSegment(node) =>
        /\ IsStr(node.capture) => IsIdentifier(node.capture.s)
        /\ (node.cls \in {"Captured", "Conditional"} /\ IsStr(node.id_or_name))
                => IsIdentifier(node.id_or_name.s)

\* The last call was given a non-identifier string as target or selector
BadTarget == call.cls \in {"Captured", "Conditional"} /\ BadName(call.kw.id_or_name)

\* The exception of the last call when the string in question is replaced by
\* the default of the argument (a number for a target or selector)
ExcWithName ==
    Construct(call.cls, call.args,
              [call.kw EXCEPT
                 !.capture = IF ~BadName(@) THEN @
                             ELSE IF call.cls = "Capture" THEN None ELSE False,
                 !.name = IF BadName(@) THEN None ELSE @,
                 !.id_or_name = IF BadName(@) THEN PyInt(1) ELSE @]).exc

C9_SelectorNotNegative ==
    (call # None /\ call.cls = "Conditional" /\ IsInt(call.kw.id_or_name)) =>
        /\ IsSegment(node) => call.kw.id_or_name.i >= 0
        /\ call.kw.id_or_name.i < 0 => node = None /\ exc # ""

RECURSIVE FlagLetters(_)
\* The flags a flags or deflags argument names
FlagLetters(v) ==
    IF v = None THEN {}
    ELSE CASE v.t = "str" -> {v.s[i] : i \in 1..Len(v.s)}
           [] v.t = "int" ->
                {p[2] : p \in {q \in {<<RE_A, "a">>, <<RE_I, "i">>, <<RE_L, "L">>, <<RE_M, "m">>,
                                      <<RE_S, "s">>, <<RE_U, "u">>, <<RE_X, "x">>} :
                                    (v.i \div q[1]) % 2 = 1}}
           [] OTHER -> UNION {FlagLetters(v.items[i]) : i \in 1..Len(v.items)}

\* The last call names some flag in both flags and deflags
FlagsConflict ==
    /\ call # None
    /\ call.cls # "Flag"
    /\ FlagLetters(call.kw.flags) \cap FlagLetters(call.kw.deflags) # {}

\* The flags a constructed node turns on and those it turns off: the text of
\* its flags before and after the -
TurnedOn(x) ==
    {x.flags[i] : i \in {j \in 1..Len(x.flags) : \A k \in 1..j : x.flags[k] # "-"}}

TurnedOff(x) ==
    {x.flags[i] : i \in {j \in 1..Len(x.flags) : \E k \in 1..(j - 1) : x.flags[k] = "-"}}

\* The exception of the last call without its flags and deflags
ExcWithoutFlags ==
    Construct(call.cls, call.args, [call.kw EXCEPT !.flags = None, !.deflags = None]).exc

RECURSIVE InvalidCode(_)
\* v is a code string with a character outside aiLmsux, or a sequence with
\* such an element
InvalidCode(v) ==
    IF v = None THEN FALSE
    ELSE CASE v.t = "str" -> \E i \in 1..Len(v.s) : v.s[i] \notin {"a", "i", "L", "m", "s", "u", "x"}
           [] v.t = "seq" -> \E i \in 1..Len(v.items) : InvalidCode(v.items[i])
           [] OTHER -> FALSE

\* The last call passes an invalid code as flags or deflags
InvalidFlagsPassed ==
    /\ call # None
    /\ call.cls # "Flag"
    /\ InvalidCode(call.kw.flags) \/ InvalidCode(call.kw.deflags)

CanonicalCode(letters) ==
    LET InSet(c) == c \in letters
    IN  SelectSeq(<<"a", "i", "L", "m", "s", "u", "x">>, InSet)

\* The flag arguments of the last call: flags and deflags, or the arguments of Flag
FlagArguments ==
    IF call.cls = "Flag" THEN {PySeq(call.args)} ELSE {call.kw.flags, call.kw.deflags}

\* C12: the codec encodes a set of flags in one way: every argument it
\* accepts (an integer bitmask, a sequence in any order, a code string in any
\* order) is encoded as the flags it names in the order a, i, L, m, s, u, x,
\* so that two arguments naming the same flags give the same code string.
C12_CodecCanonical ==
    call # None =>
        \A v \in FlagArguments :
            _flags_to_str(v).exc = "" =>
                _flags_to_str(v).val = CanonicalCode(FlagLetters(v))

\* The last call is a Conditional and the node it built is rendered compactly
ConditionalCompacted == Compacted /\ call.cls = "Conditional"

\* The text a branch of the last call contributes: a string escaped, a node rendered
BranchText(b) == IF IsStr(b) THEN Escape(b.s) ELSE Str(b)

\* The text the selector of the last call contributes: the target of a
\* Captured node, or the name or number itself
SelectorTarget ==
    LET sel == call.kw.id_or_name
        id == IF IsCaptured(sel) THEN sel.id_or_name ELSE sel
    IN  IF IsInt(id) THEN IntStr(id.i) ELSE id.s

\* The conditional form of the last call, with or without its no branch
ConditionalForm(withNo) ==
    <<"(", "?", "(">> \o SelectorTarget \o <<")">> \o BranchText(call.kw.yes)
    \o (IF withNo THEN <<"|">> \o BranchText(call.kw.no) ELSE <<>>) \o <<")">>

\* body inside the flag group and the capture group the last call asks for
InWrappers(body) ==
    LET flagged == IF FlagText = <<>> THEN body
                   ELSE <<"(", "?">> \o FlagText \o <<":">> \o body \o <<")">>
    IN  IF call.kw.capture = True THEN <<"(">> \o flagged \o <<")">>
        ELSE IF IsStr(call.kw.capture)
             THEN <<"(", "?", "P", "<">> \o call.kw.capture.s \o <<">">> \o flagged \o <<")">>
        ELSE flagged

\* C13: a Conditional renders as (?( selector ) yes ) when no no branch is
\* given and as (?( selector ) yes | no ) when one is given, a Captured
\* selector contributing its target only and string branches being escaped;
\* the capture and flag wrappers go around the whole form.
C13_ConditionalForm ==
    ConditionalCompacted => out.s = InWrappers(ConditionalForm(call.kw.no # None))

\* C13 amended: as C13, where a no branch that is the empty string counts as
\* not given: the form has | and the no branch exactly when no is a node or a
\* string that is not empty.
C13_ConditionalFormAmended ==
    ConditionalCompacted =>
        out.s = InWrappers(ConditionalForm(call.kw.no \notin {None, PyStr(<<>>)}))

\* Conditional("n", ".", "", capture=True) renders ((?(n)\.))
C13_Witness ==
    /\ ConditionalCompacted
    /\ call.kw.no = PyStr(<<>>)
    /\ call.kw.capture = True
    /\ out.s = <<"(", "(", "?", "(", "n", ")", "\\", ".", ")", ")">>

\* The last call asks for no capture and no flags, and its node is rendered compactly
BareCompacted == Compacted /\ call.kw.capture = False /\ FlagText = <<>>

\* The renderings of the children of the last call one after the other,
\* strings escaped
ChildrenText ==
    Join(<<>>, [i \in 1..Len(call.args) |-> BranchText(call.args[i])])

\* The content of the node of the last call, before any wrapper
ContentText == IF call.cls = "Or" THEN StrRaw(node) ELSE ChildrenText

\* C14: a node of a class that is not self-contained (Or, NonCapture,
\* Concat), with capture disabled and no flags, renders as (?: + its content
\* + ); in particular such a Concat renders as (?: + the renderings of its
\* children one after the other + ).
C14_BareNodeGrouped ==
    (BareCompacted /\ call.cls \in {"Or", "NonCapture", "Concat"}) =>
        out.s = <<"(", "?", ":">> \o ContentText \o <<")">>

\* C14 amended: the non-capturing group is added for Or and NonCapture; a
\* Concat with capture disabled and no flags renders as the renderings of its
\* children one after the other and nothing else.
C14_BareNodeGroupedAmended ==
    /\ (BareCompacted /\ call.cls \in {"Or", "NonCapture"}) =>
            out.s = <<"(", "?", ":">> \o ContentText \o <<")">>
    /\ (BareCompacted /\ call.cls = "Concat") => out.s = ChildrenText

\* Concat("a.", ".") renders a\.\.
C14_Witness ==
    /\ BareCompacted
    /\ call.cls = "Concat"
    /\ Len(call.args) = 2
    /\ out.s = <<"a", "\\", ".", "\\", ".">>

\* body inside the inline flag group of the node built last
InFlagGroup(body) == <<"(", "?">> \o node.flags \o <<":">> \o body \o <<")">>

\* C15: the wrappers compose in one order around the content B of a node:
\* flags F without capture give (?F:B); capture without a name gives (B), and
\* ((?F:B)) with flags; capture with a name gives (?P<name>B), and
\* (?P<name>(?F:B)) with flags; the flag group is never put inside or outside
\* an additional (?: group.
C15_WrappersCompose ==
    Compacted =>
        LET B == StrRaw(node)
            flagged == node.flags # <<>>
        IN  /\ (flagged /\ node.capture \in {None, False}) => out.s = InFlagGroup(B)
            /\ (flagged /\ node.capture = True) => out.s = <<"(">> \o InFlagGroup(B) \o <<")">>
            /\ (flagged /\ IsStr(node.capture)) =>
                    out.s = <<"(", "?", "P", "<">> \o node.capture.s \o <<">">>
                            \o InFlagGroup(B) \o <<")">>
            /\ (~flagged /\ node.capture = True) => out.s = <<"(">> \o B \o <<")">>
            /\ (~flagged /\ IsStr(node.capture)) =>
                    out.s = <<"(", "?", "P", "<">> \o node.capture.s \o <<">">> \o B \o <<")">>

\* Concat("a.", capture="n", flags="i", deflags="s") renders (?P<n>(?i-s:a\.))
C15_Witness ==
    /\ Compacted
    /\ call.cls = "Concat"
    /\ call.kw.capture = PyStr(t_n)
    /\ call.kw.flags = PyStr(t_i)
    /\ out.s = <<"(", "?", "P", "<", "n", ">", "(", "?", "i", "-", "s", ":", "a", "\\", ".", ")", ")">>

\* The character at i of t is not escaped: an even number of backslashes
\* stands right before it
Unescaped(t, i) ==
    LET run == CHOOSE n \in 0..(i - 1) :
                    /\ \A k \in 1..n : t[i - k] = "\\"
                    /\ (n = i - 1 \/ t[i - n - 1] # "\\")
    IN  run % 2 = 0

\* The groups open after the first k characters of t
Opened(t, k) ==
    Cardinality({i \in 1..k : t[i] = "(" /\ Unescaped(t, i)})
    - Cardinality({i \in 1..k : t[i] = ")" /\ Unescaped(t, i)})

\* t is one unit a quantifier can bind to: one character, one escape (\c or
\* a numbered backreference), one character class [...], or one group (...)
\* whose opening parenthesis is closed by the last character
OneUnit(t) ==
    \/ Len(t) = 1 /\ t[1] \notin {"\\", "(", ")", "[", "]", "|", "*", "+", "?"}
    \/ Len(t) >= 2 /\ t[1] = "\\"
          /\ (Len(t) = 2 \/ \A k \in 2..Len(t) : t[k] \in Digits)
    \/ Len(t) >= 2 /\ t[1] = "[" /\ t[Len(t)] = "]" /\ Unescaped(t, Len(t))
          /\ \A k \in 2..(Len(t) - 1) : t[k] = "]" => ~Unescaped(t, k)
    \/ Len(t) >= 2 /\ t[1] = "(" /\ Opened(t, Len(t)) = 0
          /\ \A k \in 1..(Len(t) - 1) : Opened(t, k) > 0

\* The last call is a quantifier, on children other than one Raw marked
\* entire, and its node is rendered compactly
QuantifierCompacted ==
    /\ Compacted
    /\ call.cls \in QuantifierClasses
    /\ ~(Len(call.args) = 1 /\ IsRaw(call.args[1]) /\ Truthy(call.args[1].entire))

\* The suffix of a quantifier: its symbol, and ? when lazy
QuantifierSuffix ==
    QuantifierSymbol \o (IF call.kw.lazy = True THEN <<"?">> ELSE <<>>)

\* The text a rendered quantifier has before its suffix
OperandText ==
    SubSeq(StrRaw(node), 1, Len(StrRaw(node)) - Len(QuantifierSuffix))

\* C16: in the rendering of a quantifier, whatever the number and kind of its
\* children (one Raw child marked entire excepted), the quantifier symbol
\* comes last (before ? when lazy) and the text before it is exactly one unit:
\* never empty, never two units side by side.
C16_OneUnitQuantified ==
    QuantifierCompacted =>
        /\ StrRaw(node) = OperandText \o QuantifierSuffix
        /\ Occurs(StrRaw(node), out.s)
        /\ OneUnit(OperandText)

\* node.pretty(indent, level) was taken last, of a node that gets a wrapper:
\* a capture group, a flag group or the non-capturing group
WrappedPrettied ==
    /\ PrettyTaken
    /\ regexr = None
    /\ Truthy(node.capture) \/ node.flags # <<>> \/ NONCAPTURING_WRAPPING(node.cls)

\* The children the node built last renders
ChildrenOf(x) == x.args \o (IF x.cls = "Conditional" THEN <<x.yes, x.no>> ELSE <<>>)

\* Some child of the node built last has a pretty rendering of several lines
SomeChildSplit ==
    \E i \in 1..Len(ChildrenOf(node)) :
        /\ IsSegment(ChildrenOf(node)[i])
        /\ Contains(Pretty(ChildrenOf(node)[i], prettied.indent, 0), "\n")

\* C17: the pretty rendering of a wrapped node is a single line whenever its
\* compact inner content has no line break, and has several lines only when
\* the pretty rendering of some descendant has several lines.
C17_SingleLineUnlessChildSplit ==
    WrappedPrettied =>
        /\ ~Contains(StrRaw(node), "\n") => ~Contains(prettied.val, "\n")
        /\ Contains(prettied.val, "\n") => SomeChildSplit \/ Contains(StrRaw(node), "\n")

\* The text of a child in the inner pretty content: a node by its pretty
\* rendering, a string escaped, or as it is in an Or and a character class
\* (a branch of a Conditional was escaped by the constructor)
ChildText(x, c) ==
    IF IsSegment(c) THEN Pretty(c, prettied.indent, 0)
    ELSE IF c = None THEN <<>>
    ELSE IF x.cls \in {"Or", "Conditional"} THEN c.s
    ELSE Escape(c.s)

\* Some child of the node built last has a text with a line break
SomeChildTextSplit ==
    \E i \in 1..Len(ChildrenOf(node)) : Contains(ChildText(node, ChildrenOf(node)[i]), "\n")

\* The inner pretty content of the node built last has a line break: the
\* compact content where the class renders it compactly, some child's text
\* in an Or and a Conditional, and otherwise one line for each child
InnerSplit ==
    CASE node.cls \in CharClassClasses \cup QuantifierClasses \cup {"Flag", "Raw", "Captured"} ->
            Contains(StrRaw(node), "\n")
      [] node.cls \in {"Or", "Conditional"} -> SomeChildTextSplit
      [] OTHER -> Len(node.args) >= 2 \/ SomeChildTextSplit

\* C17 amended: the pretty rendering of a wrapped node is a single line
\* exactly when its inner pretty content has no line break; a quantifier, a
\* character class, a Raw, a Flag and a Captured have their compact content,
\* an Or and a Conditional are split when the text of a branch is, and every
\* other node has one line for each child, so that it is split as soon as it
\* has two children.
C17_SingleLineIffInnerUnsplit ==
    WrappedPrettied => (Contains(prettied.val, "\n") <=> InnerSplit)

\* Concat("a.", ".", capture=True).pretty("x", 0) has four lines
C17_Witness ==
    /\ WrappedPrettied
    /\ call.cls = "Concat"
    /\ call.kw.capture = True
    /\ ~SomeChildSplit
    /\ prettied.indent = <<"x">>
    /\ prettied.level = 0
    /\ prettied.val = <<"(", "\n", "x", "a", "\\", ".", "\n", "x", "\\", ".", "\n", ")">>

\* x gets a wrapper from Segment.pretty
IsWrapped(x) == Truthy(x.capture) \/ x.flags # <<>> \/ NONCAPTURING_WRAPPING(x.cls)

\* The opening and the closing wrapper of a wrapped node
Opening(x) ==
    IF Truthy(x.capture) THEN CaptureStart(x) \o FlagsStart(x)
    ELSE IF x.flags # <<>> THEN FlagsStart(x)
    ELSE <<"(", "?", ":">>

Closing(x) == IF Truthy(x.capture) /\ x.flags # <<>> THEN <<")", ")">> ELSE <<")">>

StartsWith(line, prefix) ==
    Len(line) >= Len(prefix) /\ SubSeq(line, 1, Len(prefix)) = prefix

\* lines are a first line of pad, joiner and the opening wrapper of x, a last
\* line of pad and the closing wrapper of x, and between them lines that
\* begin with pad and one indent more
Framed(x, lines, pad, indent, joiner) ==
    /\ Len(lines) >= 2
    /\ lines[1] = pad \o joiner \o Opening(x)
    /\ lines[Len(lines)] = pad \o Closing(x)
    /\ \A k \in 2..(Len(lines) - 1) : StartsWith(lines[k], pad \o indent)

\* The children x renders by their own pretty, each with the joiner x puts
\* before it: | before a branch of an Or that is not the first and before
\* the no branch of a Conditional
PrettyChildren(x) ==
    IF x.cls \in CharClassClasses \cup QuantifierClasses \cup {"Flag", "Raw", "Captured"} THEN {}
    ELSE {<<x.args[i], IF x.cls = "Or" /\ i > 1 THEN <<"|">> ELSE <<>> >> :
            i \in {j \in 1..Len(x.args) : IsSegment(x.args[j])}}
         \cup (IF x.cls = "Conditional"
               THEN {<<c, <<>> >> : c \in {d \in {x.yes} : IsSegment(d)}}
                    \cup {<<c, <<"|">> >> : c \in {d \in {x.no} : IsSegment(d)}}
               ELSE {})

RECURSIVE PrettyDescendants(_)
\* The nodes rendered by their own pretty under x, each with its joiner
PrettyDescendants(x) ==
    PrettyChildren(x) \cup UNION {PrettyDescendants(p[1]) : p \in PrettyChildren(x)}

\* The node built last was rendered by pretty, on several lines
SplitPrettied == PrettyTaken /\ regexr = None /\ Contains(prettied.val, "\n")

\* C18: in a pretty rendering of several lines of a wrapped node, the first
\* line is indent * level and the opening wrapper, the last line is
\* indent * level and the closing wrapper, and every line between begins
\* with indent * (level + 1). The same holds at every nesting depth: a
\* wrapped node rendered on several lines under the node has, at some deeper
\* level, its first line (opening wrapper, after the | of its parent when it
\* is a later branch), its last line (closing wrapper) and its lines between.
C18_WrapperLinesIndented ==
    SplitPrettied =>
        LET lines == SplitNewline(prettied.val)
            indent == prettied.indent
        IN  /\ IsWrapped(node) =>
                  Framed(node, lines, Times(indent, prettied.level), indent, <<>>)
            /\ \A p \in PrettyDescendants(node) :
                  (IsWrapped(p[1]) /\ Contains(Pretty(p[1], indent, 0), "\n")) =>
                      \E a \in 1..Len(lines), b \in 1..Len(lines),
                         k \in (prettied.level)..(prettied.level + Depth(node)) :
                          /\ a < b
                          /\ Framed(p[1], SubSeq(lines, a, b), Times(indent, k), indent, p[2])

\* A wrapped node under a wrapped node, both on several lines at level 1
C18_Witness ==
    /\ SplitPrettied
    /\ IsWrapped(node)
    /\ prettied.level = 1
    /\ prettied.indent = <<" ", " ">>
    /\ \E p \in PrettyDescendants(node) :
            /\ IsWrapped(p[1])
            /\ Contains(Pretty(p[1], prettied.indent, 0), "\n")
            /\ p[2] = <<"|">>

\* The node the last call built, as its constructor left it
AsConstructed == Construct(call.cls, call.args, call.kw).val

====
